---- MODULE Spec2Model ----
(***************************************************************************)
(* The ARM core of armemu (arm/arm.c): the cpu singleton, the mode         *)
(* switcher set_cpu_mode, the signal surface (reset_cpu, raise_irq, ...)   *)
(* and the exception pipeline process_pending_exceptions.                  *)
(*                                                                         *)
(* The cpu struct is one record-valued variable, cpu; every C function is  *)
(* an operator from a cpu value to the cpu value it leaves behind, and an  *)
(* action applies one function to the variable.                            *)
(***************************************************************************)
EXTENDS Integers, FiniteSets, Sequences, TLC

VARIABLES
    cpu,        \* struct cpu_struct cpu
    ret,        \* return value of the last process_pending_exceptions call
    last_op,    \* name of the operation that made the last step
    pre,        \* cpu at entry of the last process_pending_exceptions call
    run,        \* the set_cpu_mode calls made since the CPU was last in user mode
    wr,         \* per bank and register: the value last written by an instruction
    budget,     \* how many steps of each class the behaviour has taken
    pos,        \* where the executor is inside process_pending_exceptions
    sig,        \* the calls of the signal surface around the last poll
    boot        \* what startup sets: the condition table, the core, the
                \* coprocessor slots, stop_at_cycle; and where startup is

vars == <<cpu, ret, last_op, pre, run, wr, budget, pos, sig, boot>>

(***************************************************************************)
(* Bounds of the model.                                                    *)
(***************************************************************************)
MaxExceptions == 2   \* exceptions taken (the EXCEPTIONS perf counter)
MaxSignals    == 2   \* calls of the signal surface
MaxInstr      == 2   \* instructions run by the executor: writes and mode switches
BankSwitches  == 3   \* set_cpu_mode calls in SpecBank
BankWrites    == 3   \* banked-register writes in SpecBank
AsyncSignals  == 2   \* calls of the signal surface in SpecAsync
AsyncInstr    == 1   \* instructions run by the executor in SpecAsync
AsyncExceptions == 2 \* exceptions taken in SpecAsync
BootSwitches  == 2   \* set_cpu_mode calls in SpecBoot
BootRebuilds  == 1   \* build_condition_table calls after initialize_cpu
BootInstalls  == 1   \* install_coprocessor calls in SpecBoot

(***************************************************************************)
(* reg_t: a 32-bit word, kept as its two 16-bit halves <<high, low>> so    *)
(* that every 32-bit value is a value of the model and arithmetic wraps at *)
(* 2^32 as it does in C.                                                   *)
(***************************************************************************)
Half == 65536

U32(n) == <<(n \div Half) % Half, n % Half>>

RECURSIVE BitAnd(_, _)
BitAnd(a, b) ==
    IF a = 0 \/ b = 0 THEN 0
    ELSE (a % 2) * (b % 2) + 2 * BitAnd(a \div 2, b \div 2)

and32(x, y) == <<BitAnd(x[1], y[1]), BitAnd(x[2], y[2])>>
not32(x)    == <<(Half - 1) - x[1], (Half - 1) - x[2]>>
or32(x, y)  == not32(and32(not32(x), not32(y)))
add32(x, y) ==
    LET lo == x[2] + y[2]
        hi == x[1] + y[1] + (lo \div Half)
    IN  <<hi % Half, lo % Half>>

(***************************************************************************)
(* arm/arm.h: the program status register layout and the exception bits.   *)
(***************************************************************************)
PSR_MODE_user == 16
PSR_MODE_fiq  == 17
PSR_MODE_irq  == 18
PSR_MODE_svc  == 19
PSR_MODE_abt  == 23
PSR_MODE_und  == 27
PSR_MODE_sys  == 31
PSR_MODE_MASK == U32(31)
PSR_THUMB     == U32(32)
PSR_FIQ_MASK  == U32(64)
PSR_IRQ_MASK  == U32(128)
PSR_CC_OVL    == <<4096, 0>>
PSR_CC_CARRY  == <<8192, 0>>
PSR_CC_ZERO   == <<16384, 0>>
PSR_CC_NEG    == <<32768, 0>>
PC            == 15

\* pending_exceptions is a bit set; a bit is named by its exception.
EX_RESET     == "RESET"
EX_UNDEFINED == "UNDEFINED"
EX_SWI       == "SWI"
EX_PREFETCH  == "PREFETCH"
EX_DATA_ABT  == "DATA_ABT"
EX_FIQ       == "FIQ"
EX_IRQ       == "IRQ"
EX_ALL == {EX_RESET, EX_UNDEFINED, EX_SWI, EX_PREFETCH, EX_DATA_ABT, EX_FIQ, EX_IRQ}

NULL == "NULL"

\* atomic_or(&word, bits), atomic_and(&word, bits) on the bit set, in one step
atomic_or(word, bits)  == word \cup bits
atomic_and(word, bits) == word \cap bits

\* the mode field, cpsr & PSR_MODE_MASK, as the int the code switches on
ModeOf(x) == and32(x, PSR_MODE_MASK)[2]

\* get_condition(flag): (cpu.cpsr & flag) ? 1 : 0
get_condition(c, flag) == and32(c.cpsr, flag) # U32(0)

\* set_condition(flag, b): b ? cpu.cpsr |= flag : cpu.cpsr &= ~flag
set_condition(c, flag, b) ==
    [c EXCEPT !.cpsr = IF b THEN or32(@, flag) ELSE and32(@, not32(flag))]

\* put_reg(num, data): cpu.r[num] = data, and the executing pc follows r[PC]
put_reg(c, num, data) ==
    [c EXCEPT !.r[num] = data, !.pc = IF num = PC THEN data ELSE @]

\* inc_perf_counter(EXCEPTIONS)
inc_perf_counter(c) == [c EXCEPT !.exceptions = @ + 1]

(***************************************************************************)
(* set_cpu_mode, arm.c:184-262.                                            *)
(***************************************************************************)
\* the two switch statements: the bank of a mode, NULL for the default case
BankOf(mode) ==
    CASE mode = PSR_MODE_user -> "usr_regs"
      [] mode = PSR_MODE_sys  -> "usr_regs"
      [] mode = PSR_MODE_fiq  -> "fiq_regs"
      [] mode = PSR_MODE_irq  -> "irq_regs"
      [] mode = PSR_MODE_svc  -> "svc_regs"
      [] mode = PSR_MODE_abt  -> "abt_regs"
      [] mode = PSR_MODE_und  -> "und_regs"
      [] OTHER                -> NULL

\* "save and copy the banked regs"
SaveBank(c, regs_from) ==
    IF regs_from = NULL THEN c
    ELSE [c EXCEPT ![regs_from] = [r13 |-> c.r[13], r14 |-> c.r[14], spsr |-> c.spsr]]

LoadBank(c, regs_to) ==
    IF regs_to = NULL THEN c
    ELSE [c EXCEPT !.r[13] = c[regs_to].r13, !.r[14] = c[regs_to].r14,
                   !.spsr  = c[regs_to].spsr]

\* (mutant) the switch that forgets to save the bank it leaves
set_cpu_mode_no_save(c, new_mode) ==
    LET old_mode == ModeOf(c.cpsr) IN
    IF old_mode = new_mode THEN c
    ELSE [LoadBank(c, BankOf(new_mode)) EXCEPT
              !.cpsr = or32(and32(@, not32(PSR_MODE_MASK)), U32(new_mode))]

set_cpu_mode(c, new_mode) ==
    LET old_mode == ModeOf(c.cpsr) IN
    IF old_mode = new_mode THEN c
    ELSE LET saved  == SaveBank(c, BankOf(old_mode))
             loaded == LoadBank(saved, BankOf(new_mode))
         IN  [loaded EXCEPT !.cpsr = or32(and32(@, not32(PSR_MODE_MASK)), U32(new_mode))]


(***************************************************************************)
(* The signal surface, arm.c:100-103 and 264-298.                          *)
(***************************************************************************)
reset_cpu(c)             == [c EXCEPT !.pending_exceptions = atomic_or(@, {EX_RESET})]
raise_irq(c)             == [c EXCEPT !.pending_exceptions = atomic_or(@, {EX_IRQ})]
\* (mutant) a lower_irq whose mask lost its complement
lower_irq_keeps_irq(c)   == [c EXCEPT !.pending_exceptions = atomic_and(@, {EX_IRQ})]
lower_irq(c)             == [c EXCEPT !.pending_exceptions = atomic_and(@, EX_ALL \ {EX_IRQ})]
\* (mutant) a raise_fiq copied from raise_irq with the bit left as it was
raise_fiq_sets_irq(c)    == [c EXCEPT !.pending_exceptions = atomic_or(@, {EX_IRQ})]
raise_fiq(c)             == [c EXCEPT !.pending_exceptions = atomic_or(@, {EX_FIQ})]
lower_fiq(c)             == [c EXCEPT !.pending_exceptions = atomic_and(@, EX_ALL \ {EX_FIQ})]
signal_data_abort(c)     == [c EXCEPT !.pending_exceptions = atomic_or(@, {EX_DATA_ABT})]
signal_prefetch_abort(c) == [c EXCEPT !.pending_exceptions = atomic_or(@, {EX_PREFETCH})]

(***************************************************************************)
(* process_pending_exceptions, arm.c:410-551.                              *)
(***************************************************************************)
\* (mutant) a reset that drops the interrupt lines with the other bits
EnterReset_clears_all(c) ==
    LET c1 == [c EXCEPT !.cpsr = or32(PSR_IRQ_MASK, PSR_FIQ_MASK)]
        c2 == put_reg(c1, PC, U32(0))
        c3 == [c2 EXCEPT !.curr_cp = NULL]
        c4 == set_cpu_mode(c3, PSR_MODE_svc)
        c5 == [c4 EXCEPT !.pending_exceptions = {}]
    IN  inc_perf_counter(c5)

\* "system reset", arm.c:417-432
EnterReset(c) ==
    LET c1 == [c EXCEPT !.cpsr = or32(PSR_IRQ_MASK, PSR_FIQ_MASK)]
        c2 == put_reg(c1, PC, U32(0))
        c3 == [c2 EXCEPT !.curr_cp = NULL]
        c4 == set_cpu_mode(c3, PSR_MODE_svc)
        c5 == [c4 EXCEPT !.pending_exceptions = atomic_and(@, {EX_FIQ, EX_IRQ})]
    IN  inc_perf_counter(c5)

\* The body the six other blocks share: the link register and the SPSR go to
\* the bank `regs` of the target mode, then PC, the flags and the mode.
\* `clear` is what the block's atomic_and(~bit) clears; the FIQ and IRQ blocks
\* have no atomic_and, and clear nothing.
EnterException(c, regs, offset, vector, mode, clear) ==
    LET thumb == IF get_condition(c, PSR_THUMB) THEN 1 ELSE 0
        c1 == [c EXCEPT ![regs].r14  = add32(add32(c.pc, U32(offset)), U32(thumb)),
                        ![regs].spsr = c.cpsr]
        c2 == put_reg(c1, PC, U32(vector))
        c3 == IF get_condition(c2, PSR_THUMB) THEN [c2 EXCEPT !.curr_cp = NULL] ELSE c2
        c4 == set_condition(c3, PSR_THUMB, FALSE)
        c5 == set_condition(c4, PSR_IRQ_MASK, TRUE)
        c6 == set_cpu_mode(c5, mode)
        c7 == IF clear = {} THEN c6
              ELSE [c6 EXCEPT !.pending_exceptions = atomic_and(@, EX_ALL \ clear)]
    IN  inc_perf_counter(c7)

\* (mutant) the link of a prefetch abort used for an undefined instruction
EnterUndefined_link4(c) ==
    EnterException(c, "und_regs", 4, 4, PSR_MODE_und, {EX_UNDEFINED})
\* arm.c:435-452
EnterUndefined(c) ==
    EnterException(c, "und_regs", 0, 4, PSR_MODE_und, {EX_UNDEFINED})
\* (mutant) the link of an swi counted from the swi itself
EnterSwi_link4(c) ==
    EnterException(c, "svc_regs", 4, 8, PSR_MODE_svc, {EX_SWI})
\* arm.c:455-472
EnterSwi(c) ==
    EnterException(c, "svc_regs", 0, 8, PSR_MODE_svc, {EX_SWI})
\* arm.c:475-492
EnterPrefetch(c) ==
    EnterException(c, "abt_regs", 4, 12, PSR_MODE_abt, {EX_PREFETCH})
\* arm.c:495-512
EnterDataAbort(c) ==
    EnterException(c, "abt_regs", 4, 16, PSR_MODE_abt, {EX_DATA_ABT})
\* (mutant) an FIQ entry that masks further FIQs
EnterFiq_masks_fiq(c) ==
    set_condition(EnterException(c, "fiq_regs", 4, 28, PSR_MODE_fiq, {}),
                  PSR_FIQ_MASK, TRUE)
\* arm.c:515-530
EnterFiq(c) ==
    EnterException(c, "fiq_regs", 4, 28, PSR_MODE_fiq, {})
\* (mutant) an IRQ entry that clears the line as if it were edge-triggered
EnterIrq_clears_bit(c) ==
    EnterException(c, "irq_regs", 4, 24, PSR_MODE_irq, {EX_IRQ})
\* arm.c:533-548
EnterIrq(c) ==
    EnterException(c, "irq_regs", 4, 24, PSR_MODE_irq, {})

\* (mutant) the chain with IRQ tested before FIQ
process_pending_exceptions_irq_first(c) ==
    IF EX_RESET \in c.pending_exceptions
        THEN [cpu |-> EnterReset(c), ret |-> TRUE]
    ELSE IF EX_UNDEFINED \in c.pending_exceptions
        THEN [cpu |-> EnterUndefined(c), ret |-> TRUE]
    ELSE IF EX_SWI \in c.pending_exceptions
        THEN [cpu |-> EnterSwi(c), ret |-> TRUE]
    ELSE IF EX_PREFETCH \in c.pending_exceptions
        THEN [cpu |-> EnterPrefetch(c), ret |-> TRUE]
    ELSE IF EX_DATA_ABT \in c.pending_exceptions
        THEN [cpu |-> EnterDataAbort(c), ret |-> TRUE]
    ELSE IF EX_IRQ \in c.pending_exceptions /\ ~get_condition(c, PSR_IRQ_MASK)
        THEN [cpu |-> EnterIrq(c), ret |-> TRUE]
    ELSE IF EX_FIQ \in c.pending_exceptions /\ ~get_condition(c, PSR_FIQ_MASK)
        THEN [cpu |-> EnterFiq(c), ret |-> TRUE]
    ELSE [cpu |-> c, ret |-> FALSE]

\* (mutant) the chain with the IRQ mask not looked at
process_pending_exceptions_no_irq_mask(c) ==
    IF EX_RESET \in c.pending_exceptions
        THEN [cpu |-> EnterReset(c), ret |-> TRUE]
    ELSE IF EX_UNDEFINED \in c.pending_exceptions
        THEN [cpu |-> EnterUndefined(c), ret |-> TRUE]
    ELSE IF EX_SWI \in c.pending_exceptions
        THEN [cpu |-> EnterSwi(c), ret |-> TRUE]
    ELSE IF EX_PREFETCH \in c.pending_exceptions
        THEN [cpu |-> EnterPrefetch(c), ret |-> TRUE]
    ELSE IF EX_DATA_ABT \in c.pending_exceptions
        THEN [cpu |-> EnterDataAbort(c), ret |-> TRUE]
    ELSE IF EX_FIQ \in c.pending_exceptions /\ ~get_condition(c, PSR_FIQ_MASK)
        THEN [cpu |-> EnterFiq(c), ret |-> TRUE]
    ELSE IF EX_IRQ \in c.pending_exceptions
        THEN [cpu |-> EnterIrq(c), ret |-> TRUE]
    ELSE [cpu |-> c, ret |-> FALSE]

\* The chain of ifs; the result is the cpu left behind and the return value.
process_pending_exceptions(c) ==
    IF EX_RESET \in c.pending_exceptions
        THEN [cpu |-> EnterReset(c), ret |-> TRUE]
    ELSE IF EX_UNDEFINED \in c.pending_exceptions
        THEN [cpu |-> EnterUndefined(c), ret |-> TRUE]
    ELSE IF EX_SWI \in c.pending_exceptions
        THEN [cpu |-> EnterSwi(c), ret |-> TRUE]
    ELSE IF EX_PREFETCH \in c.pending_exceptions
        THEN [cpu |-> EnterPrefetch(c), ret |-> TRUE]
    ELSE IF EX_DATA_ABT \in c.pending_exceptions
        THEN [cpu |-> EnterDataAbort(c), ret |-> TRUE]
    ELSE IF EX_FIQ \in c.pending_exceptions /\ ~get_condition(c, PSR_FIQ_MASK)
        THEN [cpu |-> EnterFiq(c), ret |-> TRUE]
    ELSE IF EX_IRQ \in c.pending_exceptions /\ ~get_condition(c, PSR_IRQ_MASK)
        THEN [cpu |-> EnterIrq(c), ret |-> TRUE]
    ELSE [cpu |-> c, ret |-> FALSE]

(***************************************************************************)
(* The state machine.  The executor thread runs instructions (register,    *)
(* flag and mode writes, the decoder's SWI and undefined-instruction       *)
(* signals) and polls process_pending_exceptions between them; the signal  *)
(* surface is called by the other threads.  Every function of arm.c runs   *)
(* as one step.                                                            *)
(***************************************************************************)
Banks == {"usr_regs", "fiq_regs", "irq_regs", "svc_regs", "abt_regs", "und_regs"}

DefinedModes == {PSR_MODE_user, PSR_MODE_fiq, PSR_MODE_irq, PSR_MODE_svc,
                 PSR_MODE_abt, PSR_MODE_und, PSR_MODE_sys}

\* the inputs of the steps
ModeInputs == DefinedModes \cup {0}
RegInputs  == {0, 13, 14}
PcVals     == {U32(4096), <<65535, 65532>>}
FlagInputs == {PSR_IRQ_MASK, PSR_FIQ_MASK, PSR_CC_NEG}

\* the k-th write of a behaviour stores a value no other write stores
RegVal(k) == U32(161 + k)

ZeroBank == [r13 |-> U32(0), r14 |-> U32(0), spsr |-> U32(0)]

\* initialize_cpu, arm.c:68: memset(&cpu, 0, sizeof(cpu))
Cpu0 ==
    [r |-> [n \in 0..15 |-> U32(0)], pc |-> U32(0), cpsr |-> U32(0), spsr |-> U32(0),
     usr_regs |-> ZeroBank, fiq_regs |-> ZeroBank, irq_regs |-> ZeroBank,
     svc_regs |-> ZeroBank, abt_regs |-> ZeroBank, und_regs |-> ZeroBank,
     pending_exceptions |-> {}, curr_cp |-> NULL, exceptions |-> 0]

NoVal == <<>>

\* startup is over and the executor runs
Started == [at |-> "started"]

\* the executor is between two polls, running instructions
Running == [at |-> "run", block |-> 0]

\* no call of the signal surface yet; both interrupt lines low
\* calls:  the calls made since the last call of, or return from, a poll
\* before: the calls made between the return before and the last call of a poll
\* during: the calls made during the last poll that has returned
\* level:  the interrupt lines whose last call was a raise
NoSig == [calls |-> <<>>, before |-> <<>>, during |-> <<>>, level |-> {}]
NoRun == [active |-> FALSE, start |-> Cpu0, visited |-> {}]

\* a run starts (again) whenever a step other than set_cpu_mode leaves the CPU
\* in user mode, or set_cpu_mode enters user mode with no run under way
RunAfterOther(c) ==
    IF ModeOf(c.cpsr) = PSR_MODE_user
    THEN [active |-> TRUE, start |-> c, visited |-> {}]
    ELSE NoRun

RunAfterSwitch(c, m) ==
    IF run.active THEN [run EXCEPT !.visited = @ \cup {m}]
    ELSE RunAfterOther(c)

InitCpu ==
    /\ cpu = Cpu0
    /\ ret = FALSE
    /\ last_op = "initialize_cpu"
    /\ pre = Cpu0
    /\ run = NoRun
    /\ wr = [b \in Banks |-> [r13 |-> NoVal, r14 |-> NoVal, spsr |-> NoVal]]
    /\ budget = [signals |-> 0, writes |-> 0, switches |-> 0]
    /\ pos = Running
    /\ sig = NoSig

Init ==
    /\ InitCpu
    /\ boot = Started

Signal(c) ==
    /\ budget.signals < MaxSignals
    /\ budget' = [budget EXCEPT !.signals = @ + 1]
    /\ cpu' = c
    /\ last_op' = "signal"
    /\ ret' = FALSE
    /\ pre' = Cpu0
    /\ run' = RunAfterOther(c)
    /\ UNCHANGED <<wr, pos, sig, boot>>

ResetCpu            == Signal(reset_cpu(cpu))
RaiseIrq            == Signal(raise_irq(cpu))
LowerIrq            == Signal(lower_irq(cpu))
RaiseFiq            == Signal(raise_fiq(cpu))
LowerFiq            == Signal(lower_fiq(cpu))
SignalDataAbort     == Signal(signal_data_abort(cpu))
SignalPrefetchAbort == Signal(signal_prefetch_abort(cpu))

\* the decoder meets a swi or an undefined instruction
SignalSwi ==
    Signal([cpu EXCEPT !.pending_exceptions = atomic_or(@, {EX_SWI})])
SignalUndefined ==
    Signal([cpu EXCEPT !.pending_exceptions = atomic_or(@, {EX_UNDEFINED})])

Write(ok, c, w) ==
    /\ ok
    /\ budget' = [budget EXCEPT !.writes = @ + 1]
    /\ cpu' = c
    /\ wr' = w
    /\ last_op' = "write"
    /\ ret' = FALSE
    /\ pre' = Cpu0
    /\ run' = RunAfterOther(c)
    /\ UNCHANGED <<pos, sig, boot>>

RegName(n) == IF n = 13 THEN "r13" ELSE "r14"

\* an instruction writes r[n]
WriteRegs(ok, regs) ==
    \E n \in regs :
        LET b == BankOf(ModeOf(cpu.cpsr))
            v == RegVal(budget.writes)
        IN  Write(ok, put_reg(cpu, n, v),
                  IF n \in {13, 14} /\ b # NULL
                  THEN [wr EXCEPT ![b][RegName(n)] = v] ELSE wr)

\* an instruction writes the SPSR of the current mode
WriteSpsrs(ok) ==
    LET b == BankOf(ModeOf(cpu.cpsr))
        v == RegVal(budget.writes)
    IN  Write(ok, [cpu EXCEPT !.spsr = v],
              IF b # NULL THEN [wr EXCEPT ![b].spsr = v] ELSE wr)

SetCpuModes(ok) ==
    \E m \in ModeInputs :
        /\ ok
        /\ budget' = [budget EXCEPT !.switches = @ + 1]
        /\ cpu' = set_cpu_mode(cpu, m)
        /\ last_op' = "set_cpu_mode"
        /\ ret' = FALSE
        /\ pre' = Cpu0
        /\ run' = RunAfterSwitch(set_cpu_mode(cpu, m), m)
        /\ UNCHANGED <<wr, pos, sig, boot>>

\* the executor has instructions left to run
MayRun == budget.writes + budget.switches < MaxInstr

WriteReg   == WriteRegs(MayRun, RegInputs)
SetCpuMode == SetCpuModes(MayRun)

\* a branch to v, to ARM or to Thumb code (bx)
Branch ==
    \E v \in PcVals, thumb \in BOOLEAN :
        Write(MayRun, set_condition(put_reg(cpu, PC, v), PSR_THUMB, thumb), wr)

\* an instruction flips a mask or a flag of the CPSR
SetCondition ==
    \E f \in FlagInputs :
        Write(MayRun, set_condition(cpu, f, ~get_condition(cpu, f)), wr)

\* the executor selects a codepage
SelectCp ==
    /\ cpu.curr_cp = NULL
    /\ Write(MayRun, [cpu EXCEPT !.curr_cp = "codepage"], wr)

\* The executor polls.  Entering a non-reset exception overwrites the r14 and
\* the SPSR of the target mode, so what an instruction wrote there is gone.
ProcessPendingExceptions ==
    LET res == process_pending_exceptions(cpu)
        b   == BankOf(ModeOf(res.cpu.cpsr))
    IN  /\ res.ret => cpu.exceptions < MaxExceptions
        /\ cpu' = res.cpu
        /\ ret' = res.ret
        /\ last_op' = "process_pending_exceptions"
        /\ pre' = cpu
        /\ run' = RunAfterOther(res.cpu)
        /\ wr' = IF res.ret /\ EX_RESET \notin cpu.pending_exceptions
                 THEN [wr EXCEPT ![b].r14 = NoVal, ![b].spsr = NoVal]
                 ELSE wr
        /\ UNCHANGED <<budget, pos, sig, boot>>

Next ==
    \/ ResetCpu \/ RaiseIrq \/ LowerIrq \/ RaiseFiq \/ LowerFiq
    \/ SignalDataAbort \/ SignalPrefetchAbort \/ SignalSwi \/ SignalUndefined
    \/ WriteReg \/ Branch \/ SetCondition \/ SelectCp
    \/ SetCpuMode
    \/ ProcessPendingExceptions

Spec == Init /\ [][Next]_vars

\* The mode switcher alone: mode switches and writes of the banked registers.
BankWriteReg   == WriteRegs(budget.writes < BankWrites, {13, 14})
BankWriteSpsr  == WriteSpsrs(budget.writes < BankWrites)
BankSetCpuMode == SetCpuModes(budget.switches < BankSwitches)

NextBank == BankWriteReg \/ BankWriteSpsr \/ BankSetCpuMode

SpecBank == Init /\ [][NextBank]_vars

(***************************************************************************)
(* process_pending_exceptions step by step.  The signal surface is called  *)
(* from other threads, so a call of it may fall between any two accesses   *)
(* the executor makes to cpu.pending_exceptions: the test that opens each  *)
(* block and the atomic_and that ends it.  What a block does in between is *)
(* done to fields no other thread touches, and runs with the test.         *)
(***************************************************************************)
\* the blocks in the order the code tests them
Blocks == <<EX_RESET, EX_UNDEFINED, EX_SWI, EX_PREFETCH, EX_DATA_ABT, EX_FIQ, EX_IRQ>>

\* (mutant) an FIQ block that also looks at the IRQ mask
BlockTest_fiq_behind_irq_mask(c, e) ==
    /\ e \in c.pending_exceptions
    /\ e = EX_FIQ => ~get_condition(c, PSR_FIQ_MASK) /\ ~get_condition(c, PSR_IRQ_MASK)
    /\ e = EX_IRQ => ~get_condition(c, PSR_IRQ_MASK)

\* the condition of the if that opens the block of e
BlockTest(c, e) ==
    /\ e \in c.pending_exceptions
    /\ e = EX_FIQ => ~get_condition(c, PSR_FIQ_MASK)
    /\ e = EX_IRQ => ~get_condition(c, PSR_IRQ_MASK)

EnterOf(c, e) ==
    CASE e = EX_RESET     -> EnterReset(c)
      [] e = EX_UNDEFINED -> EnterUndefined(c)
      [] e = EX_SWI       -> EnterSwi(c)
      [] e = EX_PREFETCH  -> EnterPrefetch(c)
      [] e = EX_DATA_ABT  -> EnterDataAbort(c)
      [] e = EX_FIQ       -> EnterFiq(c)
      [] e = EX_IRQ       -> EnterIrq(c)

\* the FIQ and IRQ blocks have no atomic_and
HasClear(e) == e \notin {EX_FIQ, EX_IRQ}

\* (mutant) a reset block that clears every pending bit
KeptBits_reset_keeps_none(e) == IF e = EX_RESET THEN {} ELSE EX_ALL \ {e}

\* the bits the atomic_and of the block of e keeps
KeptBits(e) == IF e = EX_RESET THEN {EX_FIQ, EX_IRQ} ELSE EX_ALL \ {e}

\* the block of e up to its atomic_and, or all of it when it has none
BlockBody(c, e) ==
    [EnterOf(c, e) EXCEPT !.pending_exceptions = c.pending_exceptions,
                          !.exceptions = IF HasClear(e) THEN c.exceptions ELSE @]

\* the atomic_and of the block of e, and the inc_perf_counter after it
BlockClear(c, e) ==
    inc_perf_counter([c EXCEPT !.pending_exceptions = atomic_and(@, KeptBits(e))])

Returns(r) ==
    /\ pos' = Running
    /\ last_op' = "process_pending_exceptions"
    /\ ret' = r
    /\ sig' = [sig EXCEPT !.during = sig.calls, !.calls = <<>>]

Continues(p) ==
    /\ pos' = p
    /\ last_op' = "step"
    /\ UNCHANGED <<ret, sig>>

\* the executor calls process_pending_exceptions
CallPoll ==
    /\ pos = Running
    /\ pos' = [at |-> "test", block |-> 1]
    /\ last_op' = "step"
    /\ pre' = cpu
    /\ sig' = [sig EXCEPT !.before = sig.calls, !.calls = <<>>]
    /\ UNCHANGED ret
    /\ UNCHANGED <<cpu, run, wr, budget, boot>>

\* the if of a block, and the block when the condition holds
TestBlock ==
    /\ pos.at = "test"
    /\ LET e == Blocks[pos.block] IN
       IF BlockTest(cpu, e)
       THEN /\ cpu.exceptions < AsyncExceptions
            /\ cpu' = BlockBody(cpu, e)
            /\ IF HasClear(e) THEN Continues([at |-> "clear", block |-> pos.block])
               ELSE Returns(TRUE)
       ELSE /\ UNCHANGED cpu
            /\ IF pos.block < Len(Blocks) THEN Continues([pos EXCEPT !.block = @ + 1])
               ELSE Returns(FALSE)
    /\ UNCHANGED <<pre, run, wr, budget, boot>>

\* the atomic_and that ends a block, and the return
ClearBlock ==
    /\ pos.at = "clear"
    /\ cpu' = BlockClear(cpu, Blocks[pos.block])
    /\ Returns(TRUE)
    /\ UNCHANGED <<pre, run, wr, budget, boot>>

\* a call of the signal surface, from another thread, at any time
AsyncSignal(name, c, level) ==
    /\ budget.signals < AsyncSignals
    /\ budget' = [budget EXCEPT !.signals = @ + 1]
    /\ cpu' = c
    /\ last_op' = name
    /\ sig' = [sig EXCEPT !.calls = Append(@, name), !.level = level]
    /\ UNCHANGED <<ret, pre, run, wr, pos, boot>>

AsyncResetCpu        == AsyncSignal("reset_cpu", reset_cpu(cpu), sig.level)
AsyncRaiseIrq        == AsyncSignal("raise_irq", raise_irq(cpu), sig.level \cup {EX_IRQ})
AsyncLowerIrq        == AsyncSignal("lower_irq", lower_irq(cpu), sig.level \ {EX_IRQ})
AsyncRaiseFiq        == AsyncSignal("raise_fiq", raise_fiq(cpu), sig.level \cup {EX_FIQ})
AsyncLowerFiq        == AsyncSignal("lower_fiq", lower_fiq(cpu), sig.level \ {EX_FIQ})
AsyncDataAbort       == AsyncSignal("signal_data_abort", signal_data_abort(cpu), sig.level)
AsyncPrefetchAbort   == AsyncSignal("signal_prefetch_abort", signal_prefetch_abort(cpu), sig.level)

\* an instruction of the executor, between two polls
AsyncInstruction(c) ==
    /\ pos = Running
    /\ budget.writes < AsyncInstr
    /\ budget' = [budget EXCEPT !.writes = @ + 1]
    /\ cpu' = c
    /\ last_op' = "write"
    /\ UNCHANGED <<ret, pre, run, wr, pos, sig, boot>>

\* it flips an interrupt mask
AsyncSetCondition ==
    \E f \in {PSR_IRQ_MASK, PSR_FIQ_MASK} :
        AsyncInstruction(set_condition(cpu, f, ~get_condition(cpu, f)))

\* it is a swi
AsyncSwi ==
    AsyncInstruction([cpu EXCEPT !.pending_exceptions = atomic_or(@, {EX_SWI})])

NextAsync ==
    \/ AsyncResetCpu \/ AsyncRaiseIrq \/ AsyncLowerIrq \/ AsyncRaiseFiq \/ AsyncLowerFiq
    \/ AsyncDataAbort \/ AsyncPrefetchAbort
    \/ AsyncSetCondition \/ AsyncSwi
    \/ CallPoll \/ TestBlock \/ ClearBlock

SpecAsync == Init /\ [][NextAsync]_vars


(***************************************************************************)
(* Startup: cpu_types and initialize_cpu (arm.c:47-98), start_cpu          *)
(* (arm.c:168-182), install_coprocessor (arm.c:300-306) and                *)
(* build_condition_table (arm.c:309-407).  A name is the sequence of its   *)
(* characters' codes.                                                      *)
(***************************************************************************)
\* the rows, in the order of the table:
\*   1 armv4
\*   2 armv5
\*   3 armv5e
\*   4 armv6
\*   5 arm7tdmi
\*   6 arm7
\*   7 arm9tdmi
\*   8 arm9
\*   9 arm9e
\*   10 arm926ejs
\*   11 arm926
\* (mutant) the arm9e row with the core of the arm9 row
cpu_types_arm9e_as_arm9 == <<
    [name |-> <<97, 114, 109, 118, 52>>,                       isa |-> "ARM_V4", core |-> "ARM7", with_cp15 |-> FALSE, with_mmu |-> FALSE],
    [name |-> <<97, 114, 109, 118, 53>>,                       isa |-> "ARM_V5", core |-> "ARM9", with_cp15 |-> TRUE, with_mmu |-> TRUE],
    [name |-> <<97, 114, 109, 118, 53, 101>>,                  isa |-> "ARM_V5e", core |-> "ARM9", with_cp15 |-> TRUE, with_mmu |-> TRUE],
    [name |-> <<97, 114, 109, 118, 54>>,                       isa |-> "ARM_V6", core |-> "ARM9", with_cp15 |-> TRUE, with_mmu |-> TRUE],
    [name |-> <<97, 114, 109, 55, 116, 100, 109, 105>>,        isa |-> "ARM_V4", core |-> "ARM7", with_cp15 |-> FALSE, with_mmu |-> FALSE],
    [name |-> <<97, 114, 109, 55>>,                            isa |-> "ARM_V4", core |-> "ARM7", with_cp15 |-> FALSE, with_mmu |-> FALSE],
    [name |-> <<97, 114, 109, 57, 116, 100, 109, 105>>,        isa |-> "ARM_V4", core |-> "ARM9", with_cp15 |-> TRUE, with_mmu |-> TRUE],
    [name |-> <<97, 114, 109, 57>>,                            isa |-> "ARM_V4", core |-> "ARM9", with_cp15 |-> TRUE, with_mmu |-> TRUE],
    [name |-> <<97, 114, 109, 57, 101>>,                       isa |-> "ARM_V5e", core |-> "ARM9", with_cp15 |-> TRUE, with_mmu |-> TRUE],
    [name |-> <<97, 114, 109, 57, 50, 54, 101, 106, 115>>,     isa |-> "ARM_V5e", core |-> "ARM9e", with_cp15 |-> TRUE, with_mmu |-> TRUE],
    [name |-> <<97, 114, 109, 57, 50, 54>>,                    isa |-> "ARM_V5e", core |-> "ARM9e", with_cp15 |-> TRUE, with_mmu |-> TRUE] >>

cpu_types == <<
    [name |-> <<97, 114, 109, 118, 52>>,                       isa |-> "ARM_V4", core |-> "ARM7", with_cp15 |-> FALSE, with_mmu |-> FALSE],
    [name |-> <<97, 114, 109, 118, 53>>,                       isa |-> "ARM_V5", core |-> "ARM9", with_cp15 |-> TRUE, with_mmu |-> TRUE],
    [name |-> <<97, 114, 109, 118, 53, 101>>,                  isa |-> "ARM_V5e", core |-> "ARM9", with_cp15 |-> TRUE, with_mmu |-> TRUE],
    [name |-> <<97, 114, 109, 118, 54>>,                       isa |-> "ARM_V6", core |-> "ARM9", with_cp15 |-> TRUE, with_mmu |-> TRUE],
    [name |-> <<97, 114, 109, 55, 116, 100, 109, 105>>,        isa |-> "ARM_V4", core |-> "ARM7", with_cp15 |-> FALSE, with_mmu |-> FALSE],
    [name |-> <<97, 114, 109, 55>>,                            isa |-> "ARM_V4", core |-> "ARM7", with_cp15 |-> FALSE, with_mmu |-> FALSE],
    [name |-> <<97, 114, 109, 57, 116, 100, 109, 105>>,        isa |-> "ARM_V4", core |-> "ARM9", with_cp15 |-> TRUE, with_mmu |-> TRUE],
    [name |-> <<97, 114, 109, 57>>,                            isa |-> "ARM_V4", core |-> "ARM9", with_cp15 |-> TRUE, with_mmu |-> TRUE],
    [name |-> <<97, 114, 109, 57, 101>>,                       isa |-> "ARM_V5e", core |-> "ARM9e", with_cp15 |-> TRUE, with_mmu |-> TRUE],
    [name |-> <<97, 114, 109, 57, 50, 54, 101, 106, 115>>,     isa |-> "ARM_V5e", core |-> "ARM9e", with_cp15 |-> TRUE, with_mmu |-> TRUE],
    [name |-> <<97, 114, 109, 57, 50, 54>>,                    isa |-> "ARM_V5e", core |-> "ARM9e", with_cp15 |-> TRUE, with_mmu |-> TRUE] >>

\* tolower and strcasecmp of the C library
tolower(ch) == IF ch \in 65..90 THEN ch + 32 ELSE ch

RECURSIVE strcasecmp(_, _)
strcasecmp(a, b) ==
    IF a = <<>> /\ b = <<>> THEN 0
    ELSE IF a = <<>> THEN 0 - tolower(Head(b))
    ELSE IF b = <<>> THEN tolower(Head(a))
    ELSE IF tolower(Head(a)) # tolower(Head(b)) THEN tolower(Head(a)) - tolower(Head(b))
    ELSE strcasecmp(Tail(a), Tail(b))

\* for(t = cpu_types; t->name; t++): the first row whose name matches, 0 if none
RECURSIVE FindType(_, _)
FindType(cpu_type, t) ==
    IF t > Len(cpu_types) THEN 0
    ELSE IF strcasecmp(cpu_types[t].name, cpu_type) = 0 THEN t
    ELSE FindType(cpu_type, t + 1)

\* a const char *: the null pointer, or the string it points to
NullName == [null |-> TRUE, str |-> <<>>]
Name(str) == [null |-> FALSE, str |-> str]

\* initialize_cpu after build_condition_table, arm.c:73-97
SelectType(b, cpu_type) ==
    LET d == [b EXCEPT !.isa = "ARM_V4", !.core = "ARM7"]
        t == IF cpu_type.null THEN 0 ELSE FindType(cpu_type.str, 1)
    IN  IF t = 0 THEN d
        ELSE [d EXCEPT !.isa = cpu_types[t].isa, !.core = cpu_types[t].core,
                       !.cp15 = IF cpu_types[t].with_cp15 THEN TRUE ELSE @,
                       !.mmu = cpu_types[t].with_mmu]

\* the strings initialize_cpu is called with
NameInputs == {
    <<97, 114, 109, 118, 52>>,                           \* "armv4"
    <<65, 114, 109, 86, 53>>,                            \* "ArmV5"
    <<97, 114, 109, 118, 53, 101>>,                      \* "armv5e"
    <<65, 114, 109, 118, 53, 69>>,                       \* "Armv5E"
    <<65, 82, 77, 118, 54>>,                             \* "ARMv6"
    <<65, 82, 77, 55, 84, 68, 77, 73>>,                  \* "ARM7TDMI"
    <<65, 114, 109, 55>>,                                \* "Arm7"
    <<65, 82, 77, 57, 116, 100, 109, 105>>,              \* "ARM9tdmi"
    <<65, 82, 77, 57>>,                                  \* "ARM9"
    <<97, 114, 109, 57, 101>>,                           \* "arm9e"
    <<65, 114, 109, 57, 69>>,                            \* "Arm9E"
    <<65, 82, 77, 57, 50, 54, 69, 74, 83>>,              \* "ARM926EJS"
    <<65, 114, 109, 57, 50, 54>>,                        \* "Arm926"
    <<97, 114, 109, 49, 49>>,                            \* "arm11"
    <<97, 114, 109, 118, 53, 116, 101>>,                 \* "armv5te"
    <<97, 114, 109>>,                                    \* "arm"
    <<97, 114, 109, 57, 50>>,                            \* "arm92"
    <<>>                                                 \* ""
    }

\* arm/arm.h: the condition field of an instruction
COND_SHIFT   == 28
COND_EQ      == 0
COND_NE      == 1
COND_CS      == 2
COND_CC      == 3
COND_MI      == 4
COND_PL      == 5
COND_VS      == 6
COND_VC      == 7
COND_HI      == 8
COND_LS      == 9
COND_GE      == 10
COND_LT      == 11
COND_GT      == 12
COND_LE      == 13
COND_AL      == 14
COND_SPECIAL == 15

\* a | b on 16-bit masks
BitOr(a, b) == a + b - BitAnd(a, b)

\* (mutant) COND_LE with the second if overwriting what the first found
ConditionBit_le_overwritten(i, j) ==
    LET cpsr == <<(i * 2^(COND_SHIFT - 16)) % Half, 0>>     \* i << COND_SHIFT
        set(flag) == and32(cpsr, flag) # U32(0)
        val  == and32(cpsr, or32(PSR_CC_NEG, PSR_CC_OVL))
        both == or32(PSR_CC_NEG, PSR_CC_OVL)
    IN  CASE j = COND_EQ -> set(PSR_CC_ZERO)
          [] j = COND_NE -> ~set(PSR_CC_ZERO)
          [] j = COND_CS -> set(PSR_CC_CARRY)
          [] j = COND_CC -> ~set(PSR_CC_CARRY)
          [] j = COND_MI -> set(PSR_CC_NEG)
          [] j = COND_PL -> ~set(PSR_CC_NEG)
          [] j = COND_VS -> set(PSR_CC_OVL)
          [] j = COND_VC -> ~set(PSR_CC_OVL)
          [] j = COND_HI -> and32(cpsr, or32(PSR_CC_CARRY, PSR_CC_ZERO)) = PSR_CC_CARRY
          [] j = COND_LS -> ~set(PSR_CC_CARRY) \/ set(PSR_CC_ZERO)
          [] j = COND_GE -> val = U32(0) \/ val = both
          [] j = COND_LT -> val = PSR_CC_NEG \/ val = PSR_CC_OVL
          [] j = COND_GT -> ~set(PSR_CC_ZERO) /\ (val = U32(0) \/ val = both)
          [] j = COND_LE -> val = PSR_CC_NEG \/ val = PSR_CC_OVL
          [] j = COND_SPECIAL -> TRUE
          [] j = COND_AL -> TRUE
          [] OTHER -> FALSE

\* the switch(j) of build_condition_table, arm.c:320-396: the value of bit
ConditionBit(i, j) ==
    LET cpsr == <<(i * 2^(COND_SHIFT - 16)) % Half, 0>>     \* i << COND_SHIFT
        set(flag) == and32(cpsr, flag) # U32(0)
        val  == and32(cpsr, or32(PSR_CC_NEG, PSR_CC_OVL))
        both == or32(PSR_CC_NEG, PSR_CC_OVL)
    IN  CASE j = COND_EQ -> set(PSR_CC_ZERO)
          [] j = COND_NE -> ~set(PSR_CC_ZERO)
          [] j = COND_CS -> set(PSR_CC_CARRY)
          [] j = COND_CC -> ~set(PSR_CC_CARRY)
          [] j = COND_MI -> set(PSR_CC_NEG)
          [] j = COND_PL -> ~set(PSR_CC_NEG)
          [] j = COND_VS -> set(PSR_CC_OVL)
          [] j = COND_VC -> ~set(PSR_CC_OVL)
          [] j = COND_HI -> and32(cpsr, or32(PSR_CC_CARRY, PSR_CC_ZERO)) = PSR_CC_CARRY
          [] j = COND_LS -> ~set(PSR_CC_CARRY) \/ set(PSR_CC_ZERO)
          [] j = COND_GE -> val = U32(0) \/ val = both
          [] j = COND_LT -> val = PSR_CC_NEG \/ val = PSR_CC_OVL
          [] j = COND_GT -> ~set(PSR_CC_ZERO) /\ (val = U32(0) \/ val = both)
          [] j = COND_LE -> set(PSR_CC_ZERO) \/ (val = PSR_CC_NEG \/ val = PSR_CC_OVL)
          [] j = COND_SPECIAL -> TRUE
          [] j = COND_AL -> TRUE
          [] OTHER -> FALSE

\* One round of the inner loop, arm.c:316-402; cpu.condition_table[i] = 0
\* comes before the first round of an i.
BuildRound(table, i, j) ==
    LET entry == IF j = 0 THEN 0 ELSE table[i]
    IN  [table EXCEPT ![i] = IF ConditionBit(i, j) THEN BitOr(entry, 2^j) ELSE entry]

\* panic_cpu, arm.c:570-592: exit(1), nothing runs after it
panic_cpu(b) == [b EXCEPT !.at = "panic"]

\* (mutant) the slot written before the number is looked at
install_coprocessor_unchecked(b, cp_num, coproc) ==
    IF cp_num \in 0..15 THEN [b EXCEPT !.coproc[cp_num] = coproc]
    ELSE panic_cpu([b EXCEPT !.coproc[cp_num % 16] = coproc])

\* install_coprocessor, arm.c:300-306
install_coprocessor(b, cp_num, coproc) ==
    IF cp_num < 0 \/ cp_num > 15 THEN panic_cpu(b)
    ELSE [b EXCEPT !.coproc[cp_num] = coproc]

\* (mutant) a start_cpu that takes every cycle_count but the negative ones
start_cpu_zero_bounds(b, cycle_count) ==
    [b EXCEPT !.stop_at_cycle = IF cycle_count >= 0 THEN cycle_count ELSE -1]

\* start_cpu, arm.c:168-182, up to the spawning of the executor thread
start_cpu(b, cycle_count) ==
    [b EXCEPT !.stop_at_cycle = IF cycle_count > 0 THEN cycle_count ELSE -1]

\* the inputs of the steps of startup
CpInputs    == {-1, 0, 15, 16}
CycleInputs == {-2147483647, -1, 0, 1, 2147483647}

\* the last call of install_coprocessor or start_cpu: its argument, and the
\* coprocessor slots before it
NoCall == [op |-> "none", arg |-> 0, coproc |-> <<>>]

\* initialize_cpu(cpu_type) after memset, about to call build_condition_table
Boot0(cpu_type) ==
    [at |-> "build_condition_table", i |-> 0, j |-> 0, built |-> 0,
     cpu_type |-> cpu_type,
     condition_table |-> [n \in 0..15 |-> 0], first_table |-> <<>>,
     isa |-> "zero", core |-> "zero", cp15 |-> FALSE, mmu |-> FALSE,
     coproc |-> [n \in 0..15 |-> NULL], stop_at_cycle |-> 0,
     installs |-> 0, call |-> NoCall]

InitBoot ==
    /\ InitCpu
    /\ \E cpu_type \in {Name(str) : str \in NameInputs} \cup {NullName} :
          boot = Boot0(cpu_type)

core_vars == <<cpu, ret, last_op, pre, run, wr, budget, pos, sig>>

\* a round of the loops of build_condition_table; after the last round the
\* function returns, to initialize_cpu when it was called from there
BuildConditionTable ==
    /\ boot.at = "build_condition_table"
    /\ LET table == BuildRound(boot.condition_table, boot.i, boot.j)
           b     == [boot EXCEPT !.condition_table = table]
       IN  boot' = IF boot.j < 15 THEN [b EXCEPT !.j = @ + 1]
                   ELSE IF boot.i < 15 THEN [b EXCEPT !.i = @ + 1, !.j = 0]
                   ELSE IF boot.built = 0
                   THEN [b EXCEPT !.at = "select", !.built = 1, !.first_table = table]
                   ELSE [b EXCEPT !.at = "initialized", !.built = @ + 1]
    /\ UNCHANGED core_vars

\* the rest of initialize_cpu
InitializeCpu ==
    /\ boot.at = "select"
    /\ boot' = [SelectType(boot, boot.cpu_type) EXCEPT !.at = "initialized"]
    /\ UNCHANGED core_vars

\* build_condition_table is called again
BuildAgain ==
    /\ boot.at = "initialized"
    /\ boot.built < 1 + BootRebuilds
    /\ boot' = [boot EXCEPT !.at = "build_condition_table", !.i = 0, !.j = 0]
    /\ UNCHANGED core_vars

\* install_coprocessor is called, during startup or by the executor
InstallCoprocessor ==
    /\ boot.at \in {"initialized", "started"}
    /\ boot.installs < BootInstalls
    /\ \E cp_num \in CpInputs :
          boot' = [install_coprocessor(boot, cp_num, "coproc") EXCEPT
                      !.installs = @ + 1,
                      !.call = [op |-> "install_coprocessor", arg |-> cp_num,
                                coproc |-> boot.coproc]]
    /\ UNCHANGED core_vars

StartCpu ==
    /\ boot.at = "initialized"
    /\ \E cycle_count \in CycleInputs :
          boot' = [start_cpu(boot, cycle_count) EXCEPT
                      !.at = "started",
                      !.call = [op |-> "start_cpu", arg |-> cycle_count,
                                coproc |-> boot.coproc]]
    /\ UNCHANGED core_vars

\* the executor switches modes
BootSetCpuMode ==
    /\ boot.at = "started"
    /\ SetCpuModes(budget.switches < BootSwitches)

NextBoot ==
    \/ BuildConditionTable \/ InitializeCpu \/ BuildAgain
    \/ InstallCoprocessor \/ StartCpu
    \/ BootSetCpuMode

SpecBoot == InitBoot /\ [][NextBoot]_vars

(***************************************************************************)
(* A block of process_pending_exceptions statement by statement, with no   *)
(* signaller running, arm.c:417-548.                                       *)
(***************************************************************************)
\* what the seven blocks differ in: the bank that gets the link register and
\* the SPSR, the offset of the link from pc, the vector and the mode
BlockOf(e) ==
    CASE e = EX_RESET     -> [regs |-> NULL,       offset |-> 0, vector |-> 0,  mode |-> PSR_MODE_svc]
      [] e = EX_UNDEFINED -> [regs |-> "und_regs", offset |-> 0, vector |-> 4,  mode |-> PSR_MODE_und]
      [] e = EX_SWI       -> [regs |-> "svc_regs", offset |-> 0, vector |-> 8,  mode |-> PSR_MODE_svc]
      [] e = EX_PREFETCH  -> [regs |-> "abt_regs", offset |-> 4, vector |-> 12, mode |-> PSR_MODE_abt]
      [] e = EX_DATA_ABT  -> [regs |-> "abt_regs", offset |-> 4, vector |-> 16, mode |-> PSR_MODE_abt]
      [] e = EX_FIQ       -> [regs |-> "fiq_regs", offset |-> 4, vector |-> 28, mode |-> PSR_MODE_fiq]
      [] e = EX_IRQ       -> [regs |-> "irq_regs", offset |-> 4, vector |-> 24, mode |-> PSR_MODE_irq]

\* (mutant) the blocks with the PC written after the mode switch
Statements_pc_after_switch(e) ==
    IF e = EX_RESET
    THEN <<"cpsr", "curr_cp", "set_cpu_mode", "put_reg", "atomic_and", "inc_perf_counter">>
    ELSE <<"r14", "spsr", "curr_cp", "set_condition_thumb",
           "set_condition_irq_mask", "set_cpu_mode", "put_reg">>
         \o (IF HasClear(e) THEN <<"atomic_and">> ELSE <<>>)
         \o <<"inc_perf_counter">>

\* the statements of the block of e, in the order of the code
Statements(e) ==
    IF e = EX_RESET
    THEN <<"cpsr", "put_reg", "curr_cp", "set_cpu_mode", "atomic_and", "inc_perf_counter">>
    ELSE <<"r14", "spsr", "put_reg", "curr_cp", "set_condition_thumb",
           "set_condition_irq_mask", "set_cpu_mode">>
         \o (IF HasClear(e) THEN <<"atomic_and">> ELSE <<>>)
         \o <<"inc_perf_counter">>

\* what one statement of the block of e does
Statement(c, e, st) ==
    LET b == BlockOf(e)
        thumb == IF get_condition(c, PSR_THUMB) THEN 1 ELSE 0
    IN  CASE st = "cpsr"    -> [c EXCEPT !.cpsr = or32(PSR_IRQ_MASK, PSR_FIQ_MASK)]
          [] st = "r14"     -> [c EXCEPT ![b.regs].r14 =
                                   add32(add32(c.pc, U32(b.offset)), U32(thumb))]
          [] st = "spsr"    -> [c EXCEPT ![b.regs].spsr = c.cpsr]
          [] st = "put_reg" -> put_reg(c, PC, U32(b.vector))
          [] st = "curr_cp" -> IF e = EX_RESET \/ get_condition(c, PSR_THUMB)
                               THEN [c EXCEPT !.curr_cp = NULL] ELSE c
          [] st = "set_condition_thumb"    -> set_condition(c, PSR_THUMB, FALSE)
          [] st = "set_condition_irq_mask" -> set_condition(c, PSR_IRQ_MASK, TRUE)
          [] st = "set_cpu_mode"     -> set_cpu_mode(c, b.mode)
          [] st = "atomic_and"       ->
                 [c EXCEPT !.pending_exceptions = atomic_and(@, KeptBits(e))]
          [] st = "inc_perf_counter" -> inc_perf_counter(c)

\* the executor's instructions before the poll: a mode, a pc, the Thumb bit,
\* a selected codepage; and one exception becomes pending
EntrySetup ==
    /\ last_op = "initialize_cpu"
    /\ \E m \in ModeInputs, v \in PcVals, thumb \in BOOLEAN, e \in EX_ALL :
          cpu' = [set_condition(put_reg(set_cpu_mode(cpu, m), PC, v), PSR_THUMB, thumb)
                     EXCEPT !.pending_exceptions = {e}, !.curr_cp = "codepage"]
    /\ last_op' = "write"
    /\ UNCHANGED <<ret, pre, run, wr, budget, pos, sig, boot>>

\* the chain of ifs finds the first block whose condition holds
EntryTest ==
    /\ last_op = "write"
    /\ pos = Running
    /\ \E k \in 1..Len(Blocks) :
          /\ BlockTest(cpu, Blocks[k])
          /\ \A h \in 1..(k - 1) : ~BlockTest(cpu, Blocks[h])
          /\ pos' = [at |-> "block", block |-> k, done |-> <<>>]
    /\ pre' = cpu
    /\ last_op' = "step"
    /\ UNCHANGED <<cpu, ret, run, wr, budget, sig, boot>>

\* the next statement of the block; after the last one, return TRUE
EntryStatement ==
    /\ pos.at = "block"
    /\ LET e    == Blocks[pos.block]
           n    == Len(pos.done) + 1
           done == Append(pos.done, Statements(e)[n])
       IN  /\ cpu' = Statement(cpu, e, Statements(e)[n])
           /\ IF n < Len(Statements(e))
              THEN /\ pos' = [pos EXCEPT !.done = done]
                   /\ last_op' = "step"
                   /\ UNCHANGED ret
              ELSE /\ pos' = [at |-> "run", block |-> pos.block, done |-> done]
                   /\ last_op' = "process_pending_exceptions"
                   /\ ret' = TRUE
    /\ UNCHANGED <<pre, run, wr, budget, sig, boot>>

NextEntry == EntrySetup \/ EntryTest \/ EntryStatement

SpecEntry == Init /\ [][NextEntry]_vars

(***************************************************************************)
(* What the claims speak of.                                               *)
(***************************************************************************)
\* the last step was a poll / a poll that returned true
Polled == last_op = "process_pending_exceptions"
Took   == Polled /\ ret

\* The priority order of section 4.3, and the exception a poll starting in c
\* is to take: the first pending one whose mask, if it has one, is clear.
ExOrder == <<"RESET", "UNDEFINED", "SWI", "PREFETCH", "DATA_ABT", "FIQ", "IRQ">>

Flag(psr, f) == and32(psr, f) = f

Deliverable(c, e) ==
    /\ e \in c.pending_exceptions
    /\ e = "FIQ" => ~Flag(c.cpsr, PSR_FIQ_MASK)
    /\ e = "IRQ" => ~Flag(c.cpsr, PSR_IRQ_MASK)

FirstPending(c) ==
    IF \E i \in 1..7 : Deliverable(c, ExOrder[i])
    THEN ExOrder[CHOOSE i \in 1..7 :
            /\ Deliverable(c, ExOrder[i])
            /\ \A j \in 1..(i - 1) : ~Deliverable(c, ExOrder[j])]
    ELSE "none"

Taken == FirstPending(pre)

\* the rows of the section 4.3 table
VectorOf(e) ==
    CASE e = "RESET" -> 0 [] e = "UNDEFINED" -> 4 [] e = "SWI" -> 8
      [] e = "PREFETCH" -> 12 [] e = "DATA_ABT" -> 16 [] e = "IRQ" -> 24 [] e = "FIQ" -> 28

TargetOf(e) ==
    CASE e = "RESET" -> PSR_MODE_svc [] e = "UNDEFINED" -> PSR_MODE_und
      [] e = "SWI" -> PSR_MODE_svc [] e = "PREFETCH" -> PSR_MODE_abt
      [] e = "DATA_ABT" -> PSR_MODE_abt [] e = "IRQ" -> PSR_MODE_irq
      [] e = "FIQ" -> PSR_MODE_fiq

TargetBankOf(e) ==
    CASE e = "UNDEFINED" -> "und_regs" [] e = "SWI" -> "svc_regs"
      [] e = "PREFETCH" -> "abt_regs" [] e = "DATA_ABT" -> "abt_regs"
      [] e = "IRQ" -> "irq_regs" [] e = "FIQ" -> "fiq_regs"

LinkOf(c, e) ==
    LET t == IF Flag(c.cpsr, PSR_THUMB) THEN 1 ELSE 0
    IN  IF e \in {"UNDEFINED", "SWI"} THEN add32(c.pc, U32(t))
        ELSE add32(c.pc, U32(4 + t))

NonReset == {"UNDEFINED", "SWI", "PREFETCH", "DATA_ABT", "FIQ", "IRQ"}

\* C1: one poll takes at most one exception, the first of RESET, UNDEFINED,
\* SWI, PREFETCH, DATA_ABT, FIQ (mask clear), IRQ (mask clear) pending when it
\* starts, and none when there is none; with DATA_ABT and IRQ pending it takes
\* DATA_ABT (PC = 0x10, mode abt) and IRQ is still pending afterwards.
C1_PriorityOrder ==
    Polled =>
        IF Taken = "none"
        THEN ~ret /\ cpu.exceptions = pre.exceptions
        ELSE /\ ret
             /\ cpu.exceptions = pre.exceptions + 1
             /\ cpu.pc = U32(VectorOf(Taken))
             /\ ModeOf(cpu.cpsr) = TargetOf(Taken)
             /\ (Taken = "DATA_ABT" /\ "IRQ" \in pre.pending_exceptions)
                    => "IRQ" \in cpu.pending_exceptions

C1_Witness ==
    /\ Took
    /\ {"DATA_ABT", "IRQ"} \subseteq pre.pending_exceptions
    /\ ~Flag(pre.cpsr, PSR_IRQ_MASK) /\ ~Flag(pre.cpsr, PSR_FIQ_MASK)
    /\ cpu.pc = U32(16) /\ ModeOf(cpu.cpsr) = PSR_MODE_abt
    /\ "IRQ" \in cpu.pending_exceptions

\* C2: after a non-reset exception is taken the CPU is in the target mode and
\* the handler's r14 and SPSR (the active r[14] and spsr) are the link value
\* and the CPSR from before the entry, whatever mode the CPU was in.
C2_HandlerSeesLinkAndSpsr ==
    (Took /\ Taken \in NonReset) =>
        /\ ModeOf(cpu.cpsr) = TargetOf(Taken)
        /\ cpu.r[14] = LinkOf(pre, Taken)
        /\ cpu.spsr = pre.cpsr

\* C3: the link value stored in the target mode's bank is pc + (Thumb?1:0) for
\* UNDEFINED and SWI and pc + 4 + (Thumb?1:0) for the others, modulo 2^32.
C3_LinkOffsets ==
    (Took /\ Taken \in NonReset) =>
        cpu[TargetBankOf(Taken)].r14 = LinkOf(pre, Taken)

C3_Witness ==
    /\ Took /\ Taken = "DATA_ABT"
    /\ pre.pc = <<65535, 65532>> /\ Flag(pre.cpsr, PSR_THUMB)
    /\ cpu.abt_regs.r14 = U32(1)

\* the case of C4: SWI is what a poll takes, from user mode, with pc = 0x1000
SwiFromUser ==
    /\ Took /\ Taken = "SWI"
    /\ ModeOf(pre.cpsr) = PSR_MODE_user
    /\ pre.pc = U32(4096)

SwiEntered ==
    /\ cpu.svc_regs.spsr = pre.cpsr /\ cpu.spsr = pre.cpsr
    /\ cpu.pc = U32(8)
    /\ ModeOf(cpu.cpsr) = PSR_MODE_svc
    /\ Flag(cpu.cpsr, PSR_IRQ_MASK)
    /\ ~Flag(cpu.cpsr, PSR_THUMB)

\* C4 as stated: SWI from user mode at pc = 0x1000 leaves svc r14 = 0x1004
\* (0x1001 if Thumb was set), svc SPSR = the old CPSR, PC = 0x8, mode svc, the
\* IRQ mask set and Thumb clear.
C4_SwiFromUser_Stated ==
    SwiFromUser =>
        /\ cpu.r[14] = (IF Flag(pre.cpsr, PSR_THUMB) THEN U32(4097) ELSE U32(4100))
        /\ SwiEntered

\* C4 as amended: svc r14 = 0x1000 in ARM state (the pc itself), 0x1001 if
\* Thumb was set; the rest as stated.
C4_SwiFromUser ==
    SwiFromUser =>
        /\ cpu.r[14] = (IF Flag(pre.cpsr, PSR_THUMB) THEN U32(4097) ELSE U32(4096))
        /\ cpu.svc_regs.r14 = cpu.r[14]
        /\ SwiEntered

C4_Witness ==
    /\ SwiFromUser
    /\ ~Flag(pre.cpsr, PSR_THUMB)
    /\ cpu.r[14] = U32(4096)

\* the N, Z, C and V flags of a PSR
NZCV(psr) == and32(psr, <<61440, 0>>)

\* C5: taking an exception leaves the IRQ mask set and the Thumb bit clear; a
\* non-reset exception (FIQ included) leaves the FIQ mask and NZCV as they
\* were; RESET sets the FIQ mask as well.
C5_FlagsOnEntry ==
    Took =>
        /\ Flag(cpu.cpsr, PSR_IRQ_MASK)
        /\ ~Flag(cpu.cpsr, PSR_THUMB)
        /\ Taken \in NonReset =>
              /\ Flag(cpu.cpsr, PSR_FIQ_MASK) = Flag(pre.cpsr, PSR_FIQ_MASK)
              /\ NZCV(cpu.cpsr) = NZCV(pre.cpsr)
        /\ Taken = "RESET" => Flag(cpu.cpsr, PSR_FIQ_MASK)

C5_Witness ==
    /\ Took /\ Taken = "FIQ"
    /\ Flag(pre.cpsr, PSR_THUMB) /\ ~Flag(pre.cpsr, PSR_IRQ_MASK)
    /\ ~Flag(cpu.cpsr, PSR_FIQ_MASK) /\ Flag(cpu.cpsr, PSR_IRQ_MASK)

\* C6: with RESET pending the poll returns true and leaves mode svc, both
\* masks set, PC = 0, curr_cp = none, r[0..12] as they were, and of the
\* pending bits exactly the IRQ and FIQ bits that were set.
C6_Reset ==
    (Polled /\ "RESET" \in pre.pending_exceptions) =>
        /\ ret
        /\ ModeOf(cpu.cpsr) = PSR_MODE_svc
        /\ Flag(cpu.cpsr, PSR_IRQ_MASK) /\ Flag(cpu.cpsr, PSR_FIQ_MASK)
        /\ cpu.pc = U32(0)
        /\ cpu.curr_cp = NULL
        /\ \A n \in 0..12 : cpu.r[n] = pre.r[n]
        /\ cpu.pending_exceptions = pre.pending_exceptions \cap {"IRQ", "FIQ"}

C6_Witness ==
    /\ Took /\ "RESET" \in pre.pending_exceptions
    /\ pre.curr_cp # NULL
    /\ pre.r[0] # U32(0)
    /\ Cardinality(pre.pending_exceptions) = 2
    /\ cpu.curr_cp = NULL

\* the active r13, r14 and spsr
Active(c) == [r13 |-> c.r[13], r14 |-> c.r[14], spsr |-> c.spsr]

\* C7: in a defined mode the active r13, r14 and spsr are those of the mode:
\* each still holds what an instruction last wrote to it in a mode of the
\* same bank.
C7_BankedWritesSurvive ==
    LET b == BankOf(ModeOf(cpu.cpsr)) IN
    b # NULL =>
        \A reg \in {"r13", "r14", "spsr"} :
            wr[b][reg] # NoVal => Active(cpu)[reg] = wr[b][reg]

\* the r13, r14 and spsr of mode m as the state c holds them: the active ones
\* when m shares the bank of the current mode, else those of m's bank
Banked(c, m) ==
    IF BankOf(m) = BankOf(ModeOf(c.cpsr)) THEN Active(c) ELSE c[BankOf(m)]

\* C8: a run of set_cpu_mode calls from user mode back to user mode, with no
\* register write in between, leaves r[13], r[14] and spsr as they were, and
\* the banked registers of every mode visited as they were; and what was
\* written to r[13] and r[14] in fiq mode is read back whenever the CPU is in
\* fiq mode again, whatever was written in the other modes meanwhile.
C8_RoundTrip ==
    /\ (run.active /\ ModeOf(cpu.cpsr) = PSR_MODE_user) =>
          /\ Active(cpu) = Active(run.start)
          /\ \A m \in run.visited \cap DefinedModes :
                Banked(cpu, m) = Banked(run.start, m)
    /\ ModeOf(cpu.cpsr) = PSR_MODE_fiq =>
          /\ wr.fiq_regs.r13 # NoVal => cpu.r[13] = wr.fiq_regs.r13
          /\ wr.fiq_regs.r14 # NoVal => cpu.r[14] = wr.fiq_regs.r14

\* back in fiq mode after a visit to user mode in which r[13] was written
\* after the write in fiq mode (a later write stores a larger value)
C8_Witness ==
    /\ last_op = "set_cpu_mode"
    /\ ModeOf(cpu.cpsr) = PSR_MODE_fiq
    /\ wr.fiq_regs.r13 # NoVal /\ wr.usr_regs.r13 # NoVal
    /\ wr.usr_regs.r13[2] > wr.fiq_regs.r13[2]
    /\ cpu.usr_regs.r13 = wr.usr_regs.r13
    /\ cpu.r[13] = wr.fiq_regs.r13

\* back in user mode after a run that went through fiq mode
C8_RunWitness ==
    /\ last_op = "set_cpu_mode"
    /\ run.active /\ ModeOf(cpu.cpsr) = PSR_MODE_user
    /\ PSR_MODE_fiq \in run.visited
    /\ wr.usr_regs.r13 # NoVal /\ wr.usr_regs.r14 # NoVal
    /\ cpu.r[13] = wr.usr_regs.r13

\* C9: taking IRQ or FIQ leaves pending_exceptions as it was; taking
\* UNDEFINED, SWI, PREFETCH or DATA_ABT clears that bit and no other.
C9_LevelAndEdge ==
    Took =>
        /\ Taken \in {"IRQ", "FIQ"} => cpu.pending_exceptions = pre.pending_exceptions
        /\ Taken \in {"UNDEFINED", "SWI", "PREFETCH", "DATA_ABT"} =>
              cpu.pending_exceptions = pre.pending_exceptions \ {Taken}

C9_Witness ==
    /\ Took /\ Taken = "IRQ"
    /\ cpu.pending_exceptions = {"IRQ", "FIQ"}

\* nothing is pending but an IRQ whose mask is set and/or a FIQ whose mask is set
OnlyMasked(c) ==
    \A e \in c.pending_exceptions :
        \/ e = "IRQ" /\ Flag(c.cpsr, PSR_IRQ_MASK)
        \/ e = "FIQ" /\ Flag(c.cpsr, PSR_FIQ_MASK)

ReturnsTrueIffTaken ==
    /\ ret <=> cpu.exceptions = pre.exceptions + 1
    /\ ~ret <=> OnlyMasked(pre)
    /\ ~ret => cpu = pre

\* C10 as stated: the poll returns true iff it took an exception; it returns
\* false exactly when nothing but masked IRQ/FIQ is pending, and then changes
\* nothing; with only IRQ raised it returns false while the mask is set and
\* with the mask clear takes IRQ: PC = 0x18, mode irq, irq r14 = pc + 4.
C10_ReturnValue_Stated ==
    Polled =>
        /\ ReturnsTrueIffTaken
        /\ pre.pending_exceptions = {"IRQ"} =>
              IF Flag(pre.cpsr, PSR_IRQ_MASK) THEN ~ret
              ELSE /\ cpu.pc = U32(24)
                   /\ ModeOf(cpu.cpsr) = PSR_MODE_irq
                   /\ cpu.irq_regs.r14 = add32(pre.pc, U32(4))

\* C10 as amended: irq r14 = pc + 4 + (Thumb?1:0).
C10_ReturnValue ==
    Polled =>
        /\ ReturnsTrueIffTaken
        /\ pre.pending_exceptions = {"IRQ"} =>
              IF Flag(pre.cpsr, PSR_IRQ_MASK) THEN ~ret
              ELSE /\ cpu.pc = U32(24)
                   /\ ModeOf(cpu.cpsr) = PSR_MODE_irq
                   /\ cpu.irq_regs.r14 =
                         add32(pre.pc, U32(IF Flag(pre.cpsr, PSR_THUMB) THEN 5 ELSE 4))

C10_Witness ==
    /\ Took
    /\ pre.pending_exceptions = {"IRQ"}
    /\ Flag(pre.cpsr, PSR_THUMB)
    /\ pre.pc = U32(4096)
    /\ cpu.irq_regs.r14 = U32(4101)

\* the bit a call of the signal surface sets; a lower_ sets none
BitSetBy(name) ==
    CASE name = "reset_cpu"             -> "RESET"
      [] name = "raise_irq"             -> "IRQ"
      [] name = "raise_fiq"             -> "FIQ"
      [] name = "signal_data_abort"     -> "DATA_ABT"
      [] name = "signal_prefetch_abort" -> "PREFETCH"
      [] OTHER                          -> "none"

LowerOf(e) == IF e = "IRQ" THEN "lower_irq" ELSE IF e = "FIQ" THEN "lower_fiq" ELSE "none"

\* The bits a signaller set, and returned, between the polls before and the
\* last poll, and that no lower_ cleared again before that poll returned.
SetBeforePoll ==
    {e \in {"RESET", "IRQ", "FIQ", "DATA_ABT", "PREFETCH"} :
        /\ \E k \in 1..Len(sig.before) :
              /\ BitSetBy(sig.before[k]) = e
              /\ \A j \in (k + 1)..Len(sig.before) : sig.before[j] # LowerOf(e)
        /\ \A j \in 1..Len(sig.during) : sig.during[j] # LowerOf(e)}

\* the poll that returned took the exception e
Entered(e) ==
    /\ ret
    /\ cpu.pc = U32(VectorOf(e))
    /\ ModeOf(cpu.cpsr) = TargetOf(e)

\* C11 as stated: a bit that a signaller set before a poll, and that was not
\* cleared again, is acted on by that poll: the poll takes that exception.
C11_ActsOnSignal_Stated ==
    Polled => \A e \in SetBeforePoll : Entered(e)

\* C11 as amended: the bit is pending when the poll starts; when no other
\* signaller call falls inside the poll, the poll takes that exception if it
\* is the first in the priority order that is pending with its mask clear,
\* and otherwise does not take it and leaves the bit pending, except that a
\* RESET taken instead drops a DATA_ABT or PREFETCH bit.
C11_ActsOnSignal ==
    Polled =>
        \A e \in SetBeforePoll :
            /\ e \in pre.pending_exceptions
            /\ sig.during = <<>> =>
                  IF FirstPending(pre) = e THEN Entered(e)
                  ELSE /\ ~Entered(e)
                       /\ \/ e \in cpu.pending_exceptions
                          \/ /\ FirstPending(pre) = "RESET"
                             /\ e \in {"DATA_ABT", "PREFETCH"}

C11_Witness ==
    /\ Polled /\ sig.during = <<>>
    /\ SetBeforePoll = {"IRQ", "FIQ"}
    /\ Entered("FIQ")
    /\ "IRQ" \in cpu.pending_exceptions

\* the line X was raised and then lowered between the poll before and the
\* last poll, and lower_X was the last call for X
RaisedThenLowered(raise, lower) ==
    \E k \in 1..Len(sig.before), j \in 1..Len(sig.before) :
        /\ k < j
        /\ sig.before[k] = raise
        /\ sig.before[j] = lower
        /\ \A i \in (j + 1)..Len(sig.before) : sig.before[i] # raise

\* C12: when raise_irq was followed by lower_irq, or raise_fiq by lower_fiq,
\* before a poll, and nothing else is pending when the poll starts or is set
\* while it runs, the poll returns false and takes no exception, whatever the
\* IRQ and FIQ masks of the CPSR are.
C12_RaiseThenLower ==
    \A x \in {<<"IRQ", "raise_irq", "lower_irq">>, <<"FIQ", "raise_fiq", "lower_fiq">>} :
        ( /\ Polled
          /\ RaisedThenLowered(x[2], x[3])
          /\ pre.pending_exceptions \subseteq {x[1]}
          /\ \A i \in 1..Len(sig.during) : BitSetBy(sig.during[i]) = "none" )
        => /\ ~ret
           /\ cpu.exceptions = pre.exceptions
           /\ cpu.pc = pre.pc /\ cpu.cpsr = pre.cpsr /\ cpu.r = pre.r

\* raise_irq, lower_irq, poll, with the IRQ mask clear
C12_Witness ==
    /\ Polled /\ ~ret
    /\ sig.before = <<"raise_irq", "lower_irq">>
    /\ sig.during = <<>>
    /\ ~Flag(pre.cpsr, PSR_IRQ_MASK)
    /\ pre.pending_exceptions = {}

\* what a call of the signal surface is to do to pending_exceptions
OwnBitOnly(name, pending) ==
    CASE name = "reset_cpu"             -> pending \cup {"RESET"}
      [] name = "raise_irq"             -> pending \cup {"IRQ"}
      [] name = "lower_irq"             -> pending \ {"IRQ"}
      [] name = "raise_fiq"             -> pending \cup {"FIQ"}
      [] name = "lower_fiq"             -> pending \ {"FIQ"}
      [] name = "signal_data_abort"     -> pending \cup {"DATA_ABT"}
      [] name = "signal_prefetch_abort" -> pending \cup {"PREFETCH"}

SignalNames == {"reset_cpu", "raise_irq", "lower_irq", "raise_fiq", "lower_fiq",
                "signal_data_abort", "signal_prefetch_abort"}

\* C13: a call of reset_cpu, raise_irq, lower_irq, raise_fiq, lower_fiq,
\* signal_data_abort or signal_prefetch_abort, wherever the executor is in
\* its poll and whatever the other signallers did, sets or clears its own bit
\* of pending_exceptions in one step and changes no other bit, no other field
\* of the cpu and nothing of the executor; pending_exceptions holds only
\* defined bits.
C13_SignalFrame ==
    [][ /\ cpu'.pending_exceptions \subseteq EX_ALL
        /\ last_op' \in SignalNames =>
              /\ cpu' = [cpu EXCEPT !.pending_exceptions = OwnBitOnly(last_op', @)]
              /\ pos' = pos /\ ret' = ret ]_vars

\* lower_irq called after raise_irq while the executor is between the body
\* of the SWI block and its atomic_and
C13_Witness ==
    /\ last_op = "lower_irq"
    /\ sig.calls = <<"raise_irq", "lower_irq">>
    /\ pos = [at |-> "clear", block |-> 3]
    /\ cpu.pending_exceptions = {"SWI"}

\* the predicate of condition code cc on the NZCV nibble n, section 4.5
CondHolds(n, cc) ==
    LET N == (n \div 8) % 2 = 1
        Z == (n \div 4) % 2 = 1
        C == (n \div 2) % 2 = 1
        V == n % 2 = 1
    IN  CASE cc = 0  -> Z
          [] cc = 1  -> ~Z
          [] cc = 2  -> C
          [] cc = 3  -> ~C
          [] cc = 4  -> N
          [] cc = 5  -> ~N
          [] cc = 6  -> V
          [] cc = 7  -> ~V
          [] cc = 8  -> C /\ ~Z
          [] cc = 9  -> ~C \/ Z
          [] cc = 10 -> N = V
          [] cc = 11 -> N # V
          [] cc = 12 -> ~Z /\ (N = V)
          [] cc = 13 -> Z \/ (N # V)
          [] cc = 14 -> TRUE
          [] cc = 15 -> TRUE

\* (condition_table[n] >> cc) & 1
TableBit(table, n, cc) == (table[n] \div 2^cc) % 2 = 1

\* build_condition_table has returned at least once and is not running
TableBuilt == boot.built >= 1 /\ boot.at # "build_condition_table"

\* C14: once build_condition_table has returned, bit cc of condition_table[n]
\* is the section 4.5 predicate of cc on the nibble n, for all n and cc in
\* 0..15; and after every further call the table is what the first call left.
C14_ConditionTable ==
    TableBuilt =>
        /\ \A n \in 0..15, cc \in 0..15 :
              TableBit(boot.condition_table, n, cc) = CondHolds(n, cc)
        /\ boot.condition_table = boot.first_table

\* built twice; for NZCV = 0b1000: GE 0, LT 1, MI 1, AL 1
C14_Witness ==
    /\ TableBuilt /\ boot.built = 2
    /\ ~TableBit(boot.condition_table, 8, 10)
    /\ TableBit(boot.condition_table, 8, 11)
    /\ TableBit(boot.condition_table, 8, 4)
    /\ TableBit(boot.condition_table, 8, 14)

\* the last step was install_coprocessor with a number outside 0..15
InstalledOutOfRange ==
    boot.call.op = "install_coprocessor" /\ boot.call.arg \notin 0..15

\* install_coprocessor with n outside 0..15 panics and writes no slot
InstallPanics ==
    /\ InstalledOutOfRange =>
          boot.at = "panic" /\ boot.coproc = boot.call.coproc
    /\ (boot.call.op = "install_coprocessor" /\ boot.call.arg \in 0..15) =>
          /\ boot.at # "panic"
          /\ boot.coproc = [boot.call.coproc EXCEPT ![boot.call.arg] = "coproc"]

\* C15 as stated: install_coprocessor with n outside 0..15 panics and writes
\* no slot, and a set_cpu_mode call whose old or new mode is not one of the
\* seven defined modes ends in panic_cpu.
C15_OutOfRange_Stated ==
    /\ []InstallPanics
    /\ [][ ( /\ budget'.switches = budget.switches + 1
             /\ \/ ModeOf(cpu.cpsr) \notin DefinedModes
                \/ ModeOf(cpu'.cpsr) \notin DefinedModes )
           => boot'.at = "panic" ]_vars

\* C15 as amended: install_coprocessor as stated; a set_cpu_mode call whose
\* old or new mode is not a defined mode does not panic and completes:
\* leaving an undefined mode for another mode it writes no bank, and entering
\* an undefined mode it leaves r[13], r[14] and spsr as they are.
C15_OutOfRange ==
    /\ []InstallPanics
    /\ [][ budget'.switches = budget.switches + 1 =>
             /\ last_op' = "set_cpu_mode"
             /\ boot' = boot
             /\ ModeOf(cpu.cpsr) \notin DefinedModes =>
                   \A b \in Banks : cpu'[b] = cpu[b]
             /\ ModeOf(cpu'.cpsr) \notin DefinedModes =>
                   Active(cpu') = Active(cpu) ]_vars

\* the executor went from user mode to the undefined mode 0, and then
\* install_coprocessor(16) panicked
C15_Witness ==
    /\ InstalledOutOfRange /\ boot.call.arg = 16
    /\ boot.at = "panic"
    /\ run.active /\ 0 \in run.visited
    /\ ModeOf(cpu.cpsr) = 0

\* initialize_cpu has returned
Initialized == boot.at \in {"initialized", "started", "panic"}

Settings(isa, core, cp15, mmu) == [isa |-> isa, core |-> core, cp15 |-> cp15, mmu |-> mmu]

\* the names of the section 4.1 table, row by row
NAMES_V4_ARM7 == {<<97, 114, 109, 118, 52>>, <<97, 114, 109, 55>>, <<97, 114, 109, 55, 116, 100, 109, 105>>}
NAME_ARMV5    == <<97, 114, 109, 118, 53>>
NAME_ARMV5E   == <<97, 114, 109, 118, 53, 101>>
NAMES_ARM9E   == {<<97, 114, 109, 57, 101>>, <<97, 114, 109, 57, 50, 54>>, <<97, 114, 109, 57, 50, 54, 101, 106, 115>>}
NAME_ARMV6    == <<97, 114, 109, 118, 54>>
NAMES_ARM9    == {<<97, 114, 109, 57>>, <<97, 114, 109, 57, 116, 100, 109, 105>>}

\* The row of the section 4.1 table for a name, compared without regard to
\* case, with armv5e in the row of the given core; the defaults for a name
\* that is not in the table and for no name.
RowOf(cpu_type, core_of_armv5e) ==
    LET l == [k \in 1..Len(cpu_type.str) |-> tolower(cpu_type.str[k])]
    IN  IF cpu_type.null THEN Settings("ARM_V4", "ARM7", FALSE, FALSE)
        ELSE CASE l \in NAMES_V4_ARM7 -> Settings("ARM_V4", "ARM7", FALSE, FALSE)
               [] l = NAME_ARMV5      -> Settings("ARM_V5", "ARM9", TRUE, TRUE)
               [] l = NAME_ARMV5E     -> Settings("ARM_V5e", core_of_armv5e, TRUE, TRUE)
               [] l \in NAMES_ARM9E   -> Settings("ARM_V5e", "ARM9e", TRUE, TRUE)
               [] l = NAME_ARMV6      -> Settings("ARM_V6", "ARM9", TRUE, TRUE)
               [] l \in NAMES_ARM9    -> Settings("ARM_V4", "ARM9", TRUE, TRUE)
               [] OTHER               -> Settings("ARM_V4", "ARM7", FALSE, FALSE)

Selected == Settings(boot.isa, boot.core, boot.cp15, boot.mmu)

\* C16 as stated: initialize_cpu(name) selects the ISA, core, CP15 and MMU of
\* the name's row of the section 4.1 table, armv5e being in the row of arm9e
\* (V5e/ARM9e), and V4/ARM7 without CP15 and MMU for any other or no name.
C16_CpuTypes_Stated ==
    Initialized => Selected = RowOf(boot.cpu_type, "ARM9e")

\* C16 as amended: armv5e selects V5e/ARM9/yes/yes; every other name as stated.
C16_CpuTypes ==
    Initialized => Selected = RowOf(boot.cpu_type, "ARM9")

\* "Armv5E"
C16_Witness ==
    /\ Initialized
    /\ boot.cpu_type = Name(<<65, 114, 109, 118, 53, 69>>)
    /\ Selected = Settings("ARM_V5e", "ARM9", TRUE, TRUE)

\* the last step was start_cpu
StartedCpu == boot.call.op = "start_cpu"

\* C17 as stated: start_cpu(cycle_count) with cycle_count >= 0, 0 included,
\* sets stop_at_cycle to cycle_count; stop_at_cycle is negative only for a
\* negative cycle_count.
C17_StopAtCycle_Stated ==
    StartedCpu =>
        /\ boot.call.arg >= 0 => boot.stop_at_cycle = boot.call.arg
        /\ boot.stop_at_cycle < 0 <=> boot.call.arg < 0

\* C17 as amended: a positive cycle_count sets stop_at_cycle to cycle_count;
\* a cycle_count of 0, like a negative one, sets stop_at_cycle to -1.
C17_StopAtCycle ==
    StartedCpu =>
        /\ boot.call.arg > 0 => boot.stop_at_cycle = boot.call.arg
        /\ boot.call.arg <= 0 => boot.stop_at_cycle = -1

C17_Witness ==
    /\ StartedCpu
    /\ boot.call.arg = 0
    /\ boot.stop_at_cycle = -1
    /\ boot.at = "started"

\* the statements of the block under way that have run
Ran(st) == \E n \in 1..Len(pos.done) : pos.done[n] = st

InBlock == pos.at = "block" \/ (Polled /\ pos.block # 0)

\* C18 as stated: in every block put_reg(PC, vector) runs after set_cpu_mode,
\* so the CPSR mode field is the target mode when the PC is written.
C18_PcAfterModeSwitch_Stated ==
    (InBlock /\ Ran("put_reg")) =>
        /\ Ran("set_cpu_mode")
        /\ ModeOf(cpu.cpsr) = BlockOf(Blocks[pos.block]).mode

\* C18 as amended: in every block put_reg(PC, vector) runs before
\* set_cpu_mode: when the PC is written the mode field is still the old mode
\* (0 in the reset block, which has just overwritten the CPSR); PC is not
\* banked, and the block ends with PC = the vector in the target mode.
C18_PcBeforeModeSwitch ==
    InBlock =>
        LET e == Blocks[pos.block] IN
        /\ Ran("set_cpu_mode") => Ran("put_reg")
        /\ (Ran("put_reg") /\ ~Ran("set_cpu_mode")) =>
              /\ cpu.pc = U32(BlockOf(e).vector)
              /\ ModeOf(cpu.cpsr) = (IF e = EX_RESET THEN 0 ELSE ModeOf(pre.cpsr))
        /\ Polled =>
              /\ cpu = EnterOf(pre, e)
              /\ cpu.pc = U32(BlockOf(e).vector)
              /\ cpu.r[PC] = U32(BlockOf(e).vector)
              /\ ModeOf(cpu.cpsr) = BlockOf(e).mode

\* the IRQ block, entered in user mode, has written the PC and not yet
\* switched the mode
C18_Witness ==
    /\ pos.at = "block" /\ Blocks[pos.block] = EX_IRQ
    /\ Ran("put_reg") /\ ~Ran("set_cpu_mode")
    /\ cpu.pc = U32(24)
    /\ ModeOf(pre.cpsr) = PSR_MODE_user
    /\ ModeOf(cpu.cpsr) = PSR_MODE_user

\* the step is a call of process_pending_exceptions that directly follows a
\* call that took e, the line of e still raised and no other bit pending
FollowingPoll(e) ==
    /\ Took /\ Entered(e)
    /\ cpu.pending_exceptions = {e}
    /\ last_op' = "process_pending_exceptions"
    /\ pre' = cpu

NotReentered ==
    /\ ~ret'
    /\ cpu'.pc = cpu.pc
    /\ cpu'.r = cpu.r
    /\ cpu' = cpu

\* C19 as stated: after process_pending_exceptions takes IRQ or FIQ, a
\* following call with the same line still raised, no other bit pending and
\* no write to CPSR in between takes no exception: it returns false and
\* leaves PC and the link register untouched, for IRQ and for FIQ alike.
C19_NotReentered ==
    [][\A e \in {"IRQ", "FIQ"} : FollowingPoll(e) => NotReentered]_vars

\* the IRQ half of C19: the IRQ mask set on entry keeps IRQ out
C19_IrqNotReentered ==
    [][FollowingPoll("IRQ") => NotReentered]_vars

\* the FIQ half as the code behaves: the FIQ mask stays clear, the following
\* call takes FIQ again and overwrites the link and the SPSR kept in fiq_regs
C19_FiqReentered ==
    [][FollowingPoll("FIQ") =>
          /\ ret'
          /\ cpu'.pc = U32(28)
          /\ cpu'.fiq_regs.r14 = U32(32)
          /\ cpu'.fiq_regs.spsr = cpu.cpsr
          /\ cpu'.exceptions = cpu.exceptions + 1]_vars

\* the lines whose last call was a raise, none of them lowered since
Raised == sig.level

\* C20: a raise_irq or raise_fiq is never lost: wherever the signaller's
\* atomic OR falls among the executor's tests and atomic ANDs (the clear of a
\* synchronous bit, the reset block's clear of all bits but IRQ and FIQ), the
\* raised bit is set at every point from then on, and so when both have
\* finished, until the matching lower_ function is called.
C20_RaiseNotLost ==
    /\ Raised \subseteq {EX_IRQ, EX_FIQ}
    /\ Raised \subseteq cpu.pending_exceptions

\* a poll that took the reset has returned; raise_irq was called while it
\* ran, the reset block has done its atomic_and, and IRQ is pending
C20_Witness ==
    /\ Polled /\ ret /\ pos = Running
    /\ Entered(EX_RESET)
    /\ EX_RESET \in pre.pending_exceptions
    /\ EX_IRQ \notin pre.pending_exceptions
    /\ sig.during = <<"raise_irq">>
    /\ EX_IRQ \in Raised
    /\ cpu.pending_exceptions = {EX_IRQ}

====
